---- MODULE Spec2Model ----
(***************************************************************************)
(* fb2mobi: a Telegram bot that converts FB2/TXT books to MOBI.            *)
(*                                                                         *)
(* The model follows src/main.go: one goroutine per inbound document       *)
(* (handleDocument), one goroutine per HTTP request (the handler of        *)
(* startHTTPServer), the process-wide registry `storage` (a map guarded by *)
(* a sync.RWMutex), the upload directory on disk and the wall clock.       *)
(*                                                                         *)
(* Strings are sequences of one-character strings, so that the path and    *)
(* slug computations are carried out character by character.               *)
(***************************************************************************)
EXTENDS Integers, Sequences, FiniteSets, TLC

(***************************************************************************)
(* Bounds of the model.                                                    *)
(***************************************************************************)
\* at most NumJobs documents are submitted (goroutines running
\* handleDocument) and at most NumRequests HTTP requests are made, NumTasks
\* of the two together
NumJobs == 2
NumRequests == 2
NumTasks == 3
\* the wall clock shows Epoch seconds at first and advances by at most MaxTicks
Epoch == 9
MaxTicks == 1

Jobs == 1..NumJobs
Requests == 1..NumRequests

(***************************************************************************)
(* Strings.                                                                *)
(***************************************************************************)
Lower ==
    << "a","b","c","d","e","f","g","h","i","j","k","l","m",
       "n","o","p","q","r","s","t","u","v","w","x","y","z" >>
Upper ==
    << "A","B","C","D","E","F","G","H","I","J","K","L","M",
       "N","O","P","Q","R","S","T","U","V","W","X","Y","Z" >>
Digits ==
    << "0","1","2","3","4","5","6","7","8","9" >>

\* strings.ToLower, on the ASCII letters
ToLowerChar(c) ==
    IF \E i \in 1..26 : Upper[i] = c
    THEN Lower[CHOOSE i \in 1..26 : Upper[i] = c]
    ELSE c
ToLower(s) == [i \in 1..Len(s) |-> ToLowerChar(s[i])]

\* strings.HasPrefix / strings.HasSuffix
HasPrefix(s, p) == Len(s) >= Len(p) /\ SubSeq(s, 1, Len(p)) = p
HasSuffix(s, x) == Len(s) >= Len(x) /\ SubSeq(s, Len(s) - Len(x) + 1, Len(s)) = x

\* strings.TrimPrefix / strings.TrimSuffix
TrimPrefix(s, p) == IF HasPrefix(s, p) THEN SubSeq(s, Len(p) + 1, Len(s)) ELSE s
TrimSuffix(s, x) == IF HasSuffix(s, x) THEN SubSeq(s, 1, Len(s) - Len(x)) ELSE s

\* fmt.Sprintf("%d", n) for n >= 0
RECURSIVE Itoa(_)
Itoa(n) == IF n < 10 THEN << Digits[n + 1] >> ELSE Itoa(n \div 10) \o << Digits[(n % 10) + 1] >>

\* filepath.Ext: the suffix beginning at the final dot of the final element
\* of the path, empty when that element has no dot
Ext(path) ==
    LET stops == { i \in 1..Len(path) : path[i] = "." \/ path[i] = "/" }
        last  == CHOOSE i \in stops : \A k \in stops : k <= i
    IN  IF stops = {} THEN << >>
        ELSE IF path[last] = "." THEN SubSeq(path, last, Len(path))
        ELSE << >>

\* filepath.Base, for a non-empty path that does not end in a separator
Base(path) ==
    LET seps == { i \in 1..Len(path) : path[i] = "/" }
        last == CHOOSE i \in seps : \A k \in seps : k <= i
    IN  IF seps = {} THEN path ELSE SubSeq(path, last + 1, Len(path))

\* filepath.Join(dir, name) for a name without separators or dot elements:
\* the two joined by a separator and cleaned, which drops a leading "./"
Join(dir, name) ==
    LET joined == dir \o << "/" >> \o name
    IN  IF HasPrefix(joined, << ".", "/" >>) THEN SubSeq(joined, 3, Len(joined)) ELSE joined

\* const uploadDir = "./uploads"
uploadDir == << ".", "/", "u", "p", "l", "o", "a", "d", "s" >>

\* the documents users submit: accepted in lower and upper case (the two
\* share a stem), not accepted, and without extension
FileNames ==
    { << "b", ".", "f", "b", "2" >>,
      << "b", ".", "T", "X", "T" >>,
      << "b", ".", "p", "d", "f" >>,
      << "f", "b", "2" >> }

\* a variant of the extension test: the extension is compared as it is written
AcceptedCaseSensitive(name) ==
    LET fileExt == Ext(name)
    IN  ~ (fileExt # << ".", "f", "b", "2" >> /\ fileExt # << ".", "t", "x", "t" >>)

\* the extension test of handleDocument
Accepted(name) ==
    LET fileExt == ToLower(Ext(name))
    IN  ~ (fileExt # << ".", "f", "b", "2" >> /\ fileExt # << ".", "t", "x", "t" >>)

(***************************************************************************)
(* Slugs.                                                                  *)
(***************************************************************************)
\* the alphabet of base64.RawURLEncoding
Base64URL ==
    Upper \o Lower \o Digits \o << "-", "_" >>

\* base64.RawURLEncoding.EncodeToString of three bytes: four characters
EncodeToString(b) ==
    << Base64URL[(b[1] \div 4) + 1],
       Base64URL[((b[1] % 4) * 16 + (b[2] \div 16)) + 1],
       Base64URL[((b[2] % 16) * 4 + (b[3] \div 64)) + 1],
       Base64URL[(b[3] % 64) + 1] >>

\* what rand.Read may put into the three bytes: two triples that differ in
\* the last six bits only, and a third one
RandBytes ==
    { << 104, 29, 117 >>, << 104, 29, 64 >>, << 0, 0, 0 >> }

\* generateSlug on a successful read of the bytes b
generateSlug(b) == SubSeq(EncodeToString(b), 1, 3)

(***************************************************************************)
(* State.                                                                  *)
(***************************************************************************)
VARIABLES
    \* handleDocument, per job
    pc,         \* the statement the goroutine is about to execute
    fileName,   \* doc.FileName
    timeStamp,  \* timeStamp, NoTime until line 110 has run
    slug,       \* slug, empty until generateSlug has returned
    err,        \* which call, if any, returned the error the job is handling
    notified,   \* what bot.Send returned for the retrieval URL (line 149)
    sent,       \* the messages handed to bot.Send for the job's chat, in order
    \* process-wide
    files,      \* storage.files
    mu,         \* storage.mu: whether a writer holds it, how many readers do
    inserts,    \* history: the assignments of line 140 (job, slug, path), in order
    disk,       \* the upload directory: path -> contents
    now,        \* time.Now().Unix()
    \* the HTTP handler, per request
    rpc,        \* the statement the handler is about to execute
    urlPath,    \* r.URL.Path
    filePath,   \* filePath, as read from the map
    exists,     \* exists, as read from the map
    response    \* what has been written to w

jobVars == << pc, fileName, timeStamp, slug, err, notified, sent >>
reqVars == << rpc, urlPath, filePath, exists, response >>
vars == << pc, fileName, timeStamp, slug, err, notified, sent,
           files, mu, inserts, disk, now,
           rpc, urlPath, filePath, exists, response >>

\* no time stamp taken yet: a value the clock never shows
NoTime == Epoch - 1
NoPath == << >>
NoName == << >>
NoSlug == << >>

\* a function as a set of pairs: assignment and removal of one key
Put(f, k, v) == [x \in (DOMAIN f) \cup {k} |-> IF x = k THEN v ELSE f[x]]
Remove(f, k) == [x \in (DOMAIN f) \ {k} |-> f[x]]
Empty == [x \in {} |-> x]

\* lines 111-113: the paths of a job, once it has its time stamp
inputPath(j) ==
    IF timeStamp[j] = NoTime THEN NoPath
    ELSE Join(uploadDir, Itoa(timeStamp[j]) \o << "_" >> \o fileName[j])
outputPath(j) ==
    IF timeStamp[j] = NoTime THEN NoPath
    ELSE Join(uploadDir,
              Itoa(timeStamp[j]) \o << "_" >>
                  \o TrimSuffix(fileName[j], Ext(fileName[j]))
                  \o << ".", "m", "o", "b", "i" >>)

\* the texts sent to the user
Msg(kind, arg) == [kind |-> kind, arg |-> arg]
Rejection == Msg("rejection", << >>)     \* line 95
Started   == Msg("started", << >>)       \* line 100
ErrorMsg  == Msg("error", << >>)         \* line 228
\* lines 143-147; SERVER_HOST is "h"
downloadURL(s) == << "h", "t", "t", "p", ":", "/", "/", "h", "/" >> \o s
UrlMsg(s) == Msg("url", downloadURL(s))
\* lines 215-221: the document is named after the file
DocMsg(path) == Msg("document", Base(path))

\* sendErrorMessage
sendErrorMessage(j) == sent' = [sent EXCEPT ![j] = Append(@, ErrorMsg)]

\* the contents of a file or of a response body: what it is and, for a
\* file, whose document it comes from
Contents(kind, doc) == [kind |-> kind, doc |-> doc]
PlainText(text) == Contents(text, 0)

\* the paths requested: the root, and the two slugs the jobs may generate
UrlPaths ==
    { << "/" >>, << "/", "a", "B", "1" >>, << "/", "A", "A", "A" >> }

\* what the handler has written to w
Response(status, contentType, disposition, body) ==
    [status |-> status, contentType |-> contentType,
     disposition |-> disposition, body |-> body]
NoResponse == Response(0, "", << >>, PlainText(""))
\* http.Error(w, "Not Found", http.StatusNotFound)
NotFoundResponse ==
    Response(404, "text/plain; charset=utf-8", << >>, PlainText("Not Found"))

Init ==
    /\ pc = [j \in Jobs |-> "idle"]
    /\ fileName = [j \in Jobs |-> NoName]
    /\ timeStamp = [j \in Jobs |-> NoTime]
    /\ slug = [j \in Jobs |-> NoSlug]
    /\ err = [j \in Jobs |-> "nil"]
    /\ notified = [j \in Jobs |-> "none"]
    /\ sent = [j \in Jobs |-> << >>]
    /\ files = Empty
    /\ mu = [writer |-> FALSE, readers |-> 0]
    /\ inserts = << >>
    /\ disk = Empty
    /\ now = Epoch
    /\ rpc = [r \in Requests |-> "idle"]
    /\ urlPath = [r \in Requests |-> NoPath]
    /\ filePath = [r \in Requests |-> NoPath]
    /\ exists = [r \in Requests |-> FALSE]
    /\ response = [r \in Requests |-> NoResponse]

(***************************************************************************)
(* handleDocument (lines 89-158), one action per step that touches state   *)
(* another goroutine can see.                                              *)
(***************************************************************************)
\* the goroutines started so far
Tasks == Cardinality({ j \in Jobs : pc[j] # "idle" }) + Cardinality({ r \in Requests : rpc[r] # "idle" })

\* lines 63-77: the update loop of main receives a document and starts a
\* goroutine for it; the updates are taken one after the other
Receive(j) ==
    /\ pc[j] = "idle"
    /\ \A k \in Jobs : k < j => pc[k] # "idle"
    /\ Tasks < NumTasks
    /\ \E name \in FileNames : fileName' = [fileName EXCEPT ![j] = name]
    /\ pc' = [pc EXCEPT ![j] = "validate"]
    /\ UNCHANGED << timeStamp, slug, err, notified, sent,
                    files, mu, inserts, disk, now, reqVars >>

\* lines 93-101: the extension test, and the first message
Validate(j) ==
    /\ pc[j] = "validate"
    /\ IF ~ Accepted(fileName[j])
       THEN /\ sent' = [sent EXCEPT ![j] = Append(@, Rejection)]
            /\ pc' = [pc EXCEPT ![j] = "rejected"]
       ELSE /\ sent' = [sent EXCEPT ![j] = Append(@, Started)]
            /\ pc' = [pc EXCEPT ![j] = "getFile"]
    /\ UNCHANGED << fileName, timeStamp, slug, err, notified,
                    files, mu, inserts, disk, now, reqVars >>

\* lines 103-108: bot.GetFile fails
GetFileFail(j) ==
    /\ pc[j] = "getFile"
    /\ err' = [err EXCEPT ![j] = "GetFile"]
    /\ sendErrorMessage(j)
    /\ pc' = [pc EXCEPT ![j] = "failed"]
    /\ UNCHANGED << fileName, timeStamp, slug, notified,
                    files, mu, inserts, disk, now, reqVars >>

\* lines 103-113: bot.GetFile succeeds; the clock is read and names the
\* paths. The clock is read nowhere else, so its advance is taken here: it
\* shows the second of its last reading or a later one
GetFileOk(j) ==
    /\ pc[j] = "getFile"
    /\ \E t \in now..(Epoch + MaxTicks) :
          /\ now' = t
          /\ timeStamp' = [timeStamp EXCEPT ![j] = t]
    /\ pc' = [pc EXCEPT ![j] = "download"]
    /\ UNCHANGED << fileName, slug, err, notified, sent,
                    files, mu, inserts, disk, reqVars >>

\* lines 115, 190-193: wget exits zero and has written the whole file
DownloadOk(j) ==
    /\ pc[j] = "download"
    /\ disk' = Put(disk, inputPath(j), Contents("source", j))
    /\ pc' = [pc EXCEPT ![j] = "convert"]
    /\ UNCHANGED << fileName, timeStamp, slug, err, notified, sent,
                    files, mu, inserts, now, reqVars >>

\* a variant of the failed download: the user is told nothing
DownloadFailSilent(j) ==
    /\ pc[j] = "download"
    /\ \/ disk' = Put(disk, inputPath(j), Contents("partial", j))
       \/ disk' = disk
    /\ err' = [err EXCEPT ![j] = "downloadFile"]
    /\ pc' = [pc EXCEPT ![j] = "cleanupDownload"]
    /\ UNCHANGED << fileName, timeStamp, slug, notified, sent,
                    files, mu, inserts, now, reqVars >>

\* lines 115-118: wget fails, having written part of the file or nothing
DownloadFail(j) ==
    /\ pc[j] = "download"
    /\ \/ disk' = Put(disk, inputPath(j), Contents("partial", j))
       \/ disk' = disk
    /\ err' = [err EXCEPT ![j] = "downloadFile"]
    /\ sendErrorMessage(j)
    /\ pc' = [pc EXCEPT ![j] = "cleanupDownload"]
    /\ UNCHANGED << fileName, timeStamp, slug, notified,
                    files, mu, inserts, now, reqVars >>

\* a variant of the cleanup after a failed download: both paths are removed
CleanupDownloadBoth(j) ==
    /\ pc[j] = "cleanupDownload"
    /\ disk' = Remove(Remove(disk, inputPath(j)), outputPath(j))
    /\ pc' = [pc EXCEPT ![j] = "failed"]
    /\ UNCHANGED << fileName, timeStamp, slug, err, notified, sent,
                    files, mu, inserts, now, reqVars >>

\* lines 119-120: cleanupFiles(inputPath)
CleanupDownload(j) ==
    /\ pc[j] = "cleanupDownload"
    /\ disk' = Remove(disk, inputPath(j))
    /\ pc' = [pc EXCEPT ![j] = "failed"]
    /\ UNCHANGED << fileName, timeStamp, slug, err, notified, sent,
                    files, mu, inserts, now, reqVars >>

\* lines 123, 195-207: ebook-convert exits zero: it has read the input and
\* written the output
ConvertOk(j) ==
    /\ pc[j] = "convert"
    /\ inputPath(j) \in DOMAIN disk
    /\ disk' = Put(disk, outputPath(j), Contents("mobi", disk[inputPath(j)].doc))
    /\ pc' = [pc EXCEPT ![j] = "generateSlug"]
    /\ UNCHANGED << fileName, timeStamp, slug, err, notified, sent,
                    files, mu, inserts, now, reqVars >>

\* a variant of the failed conversion: the return of line 128 is missing
ConvertFailNoReturn(j) ==
    /\ pc[j] = "convert"
    /\ \/ disk' = Put(disk, outputPath(j), Contents("partial", j))
       \/ disk' = disk
    /\ err' = [err EXCEPT ![j] = "convertFile"]
    /\ sendErrorMessage(j)
    /\ pc' = [pc EXCEPT ![j] = "generateSlug"]
    /\ UNCHANGED << fileName, timeStamp, slug, notified,
                    files, mu, inserts, now, reqVars >>

\* lines 123-126: ebook-convert fails, having written part of the output or
\* nothing
ConvertFail(j) ==
    /\ pc[j] = "convert"
    /\ \/ disk' = Put(disk, outputPath(j), Contents("partial", j))
       \/ disk' = disk
    /\ err' = [err EXCEPT ![j] = "convertFile"]
    /\ sendErrorMessage(j)
    /\ pc' = [pc EXCEPT ![j] = "cleanupInput"]
    /\ UNCHANGED << fileName, timeStamp, slug, notified,
                    files, mu, inserts, now, reqVars >>

\* a variant of the successful slug generation: the URL is sent first, the
\* slug inserted never
GenerateSlugOkNotifiesFirst(j) ==
    /\ pc[j] = "generateSlug"
    /\ \E b \in RandBytes : slug' = [slug EXCEPT ![j] = generateSlug(b)]
    /\ pc' = [pc EXCEPT ![j] = "notify"]
    /\ UNCHANGED << fileName, timeStamp, err, notified, sent,
                    files, mu, inserts, disk, now, reqVars >>

\* lines 131, 81-87: rand.Read fills the three bytes
GenerateSlugOk(j) ==
    /\ pc[j] = "generateSlug"
    /\ \E b \in RandBytes : slug' = [slug EXCEPT ![j] = generateSlug(b)]
    /\ pc' = [pc EXCEPT ![j] = "lock"]
    /\ UNCHANGED << fileName, timeStamp, err, notified, sent,
                    files, mu, inserts, disk, now, reqVars >>

\* a variant of the failed slug generation: the output is left behind
GenerateSlugFailKeepsOutput(j) ==
    /\ pc[j] = "generateSlug"
    /\ err' = [err EXCEPT ![j] = "generateSlug"]
    /\ sendErrorMessage(j)
    /\ pc' = [pc EXCEPT ![j] = "cleanup"]
    /\ UNCHANGED << fileName, timeStamp, slug, notified,
                    files, mu, inserts, disk, now, reqVars >>

\* lines 131-134: rand.Read fails
GenerateSlugFail(j) ==
    /\ pc[j] = "generateSlug"
    /\ err' = [err EXCEPT ![j] = "generateSlug"]
    /\ sendErrorMessage(j)
    /\ pc' = [pc EXCEPT ![j] = "cleanupInput"]
    /\ UNCHANGED << fileName, timeStamp, slug, notified,
                    files, mu, inserts, disk, now, reqVars >>

\* lines 127 and 135, 233-239: cleanupFiles(inputPath, outputPath), the
\* first os.Remove of the loop
CleanupInput(j) ==
    /\ pc[j] = "cleanupInput"
    /\ disk' = Remove(disk, inputPath(j))
    /\ pc' = [pc EXCEPT ![j] = "cleanupOutput"]
    /\ UNCHANGED << fileName, timeStamp, slug, err, notified, sent,
                    files, mu, inserts, now, reqVars >>

\* a variant of the second os.Remove: the entries of the registry that point
\* to the removed file are deleted with it
CleanupOutputUnregisters(j) ==
    /\ pc[j] = "cleanupOutput"
    /\ disk' = Remove(disk, outputPath(j))
    /\ files' = [s \in { x \in DOMAIN files : files[x] # outputPath(j) } |-> files[s]]
    /\ pc' = [pc EXCEPT ![j] = "failed"]
    /\ UNCHANGED << fileName, timeStamp, slug, err, notified, sent,
                    mu, inserts, now, reqVars >>

\* the second os.Remove of the loop, and the return of lines 128 and 136
CleanupOutput(j) ==
    /\ pc[j] = "cleanupOutput"
    /\ disk' = Remove(disk, outputPath(j))
    /\ pc' = [pc EXCEPT ![j] = "failed"]
    /\ UNCHANGED << fileName, timeStamp, slug, err, notified, sent,
                    files, mu, inserts, now, reqVars >>

\* a variant of Lock: the writer does not wait for the readers to leave
LockIgnoresReaders(j) ==
    /\ pc[j] = "lock"
    /\ ~ mu.writer
    /\ mu' = [mu EXCEPT !.writer = TRUE]
    /\ pc' = [pc EXCEPT ![j] = "insert"]
    /\ UNCHANGED << fileName, timeStamp, slug, err, notified, sent,
                    files, inserts, disk, now, reqVars >>

\* line 139: storage.mu.Lock()
Lock(j) ==
    /\ pc[j] = "lock"
    /\ ~ mu.writer
    /\ mu.readers = 0
    /\ mu' = [mu EXCEPT !.writer = TRUE]
    /\ pc' = [pc EXCEPT ![j] = "insert"]
    /\ UNCHANGED << fileName, timeStamp, slug, err, notified, sent,
                    files, inserts, disk, now, reqVars >>

\* a variant of the assignment: a slug already in the map keeps its path
InsertKeepsFirst(j) ==
    /\ pc[j] = "insert"
    /\ files' = IF slug[j] \in DOMAIN files THEN files ELSE Put(files, slug[j], outputPath(j))
    /\ inserts' = Append(inserts, [job |-> j, slug |-> slug[j], path |-> outputPath(j)])
    /\ pc' = [pc EXCEPT ![j] = "unlock"]
    /\ UNCHANGED << fileName, timeStamp, slug, err, notified, sent,
                    mu, disk, now, reqVars >>

\* a variant of the assignment: the write loses the other entries of the map
InsertLosesOthers(j) ==
    /\ pc[j] = "insert"
    /\ files' = Put(Empty, slug[j], outputPath(j))
    /\ inserts' = Append(inserts, [job |-> j, slug |-> slug[j], path |-> outputPath(j)])
    /\ pc' = [pc EXCEPT ![j] = "unlock"]
    /\ UNCHANGED << fileName, timeStamp, slug, err, notified, sent,
                    mu, disk, now, reqVars >>

\* line 140: storage.files[slug] = outputPath
Insert(j) ==
    /\ pc[j] = "insert"
    /\ files' = Put(files, slug[j], outputPath(j))
    /\ inserts' = Append(inserts, [job |-> j, slug |-> slug[j], path |-> outputPath(j)])
    /\ pc' = [pc EXCEPT ![j] = "unlock"]
    /\ UNCHANGED << fileName, timeStamp, slug, err, notified, sent,
                    mu, disk, now, reqVars >>

\* a variant of Unlock: the lock is not released
UnlockKeepsLock(j) ==
    /\ pc[j] = "unlock"
    /\ pc' = [pc EXCEPT ![j] = "notify"]
    /\ UNCHANGED << fileName, timeStamp, slug, err, notified, sent,
                    files, mu, inserts, disk, now, reqVars >>

\* line 141: storage.mu.Unlock()
Unlock(j) ==
    /\ pc[j] = "unlock"
    /\ mu' = [mu EXCEPT !.writer = FALSE]
    /\ pc' = [pc EXCEPT ![j] = "notify"]
    /\ UNCHANGED << fileName, timeStamp, slug, err, notified, sent,
                    files, inserts, disk, now, reqVars >>

\* lines 143-149: the retrieval URL is sent; what bot.Send returns is dropped
Notify(j) ==
    /\ pc[j] = "notify"
    /\ sent' = [sent EXCEPT ![j] = Append(@, UrlMsg(slug[j]))]
    /\ \E r \in {"ok", "error"} : notified' = [notified EXCEPT ![j] = r]
    /\ pc' = [pc EXCEPT ![j] = "upload"]
    /\ UNCHANGED << fileName, timeStamp, slug, err,
                    files, mu, inserts, disk, now, reqVars >>

\* lines 151, 209-225: the file is read and sent as a document
UploadOk(j) ==
    /\ pc[j] = "upload"
    /\ outputPath(j) \in DOMAIN disk
    /\ sent' = [sent EXCEPT ![j] = Append(@, DocMsg(outputPath(j)))]
    /\ pc' = [pc EXCEPT ![j] = "cleanup"]
    /\ UNCHANGED << fileName, timeStamp, slug, err, notified,
                    files, mu, inserts, disk, now, reqVars >>

\* a variant of the failed upload: the job rolls back as after a failed
\* conversion
UploadFailRollsBack(j) ==
    /\ pc[j] = "upload"
    /\ err' = [err EXCEPT ![j] = "sendConvertedFile"]
    /\ IF outputPath(j) \in DOMAIN disk
       THEN sent' = [sent EXCEPT ![j] = Append(Append(@, DocMsg(outputPath(j))), ErrorMsg)]
       ELSE sent' = [sent EXCEPT ![j] = Append(@, ErrorMsg)]
    /\ pc' = [pc EXCEPT ![j] = "cleanupInput"]
    /\ UNCHANGED << fileName, timeStamp, slug, notified,
                    files, mu, inserts, disk, now, reqVars >>

\* lines 151-155: os.ReadFile fails (nothing is sent), or bot.Send of the
\* document does; either way the user is sent the error message
UploadFail(j) ==
    /\ pc[j] = "upload"
    /\ err' = [err EXCEPT ![j] = "sendConvertedFile"]
    /\ IF outputPath(j) \in DOMAIN disk
       THEN sent' = [sent EXCEPT ![j] = Append(Append(@, DocMsg(outputPath(j))), ErrorMsg)]
       ELSE sent' = [sent EXCEPT ![j] = Append(@, ErrorMsg)]
    /\ pc' = [pc EXCEPT ![j] = "cleanup"]
    /\ UNCHANGED << fileName, timeStamp, slug, notified,
                    files, mu, inserts, disk, now, reqVars >>

\* line 157: cleanupFiles(inputPath)
Cleanup(j) ==
    /\ pc[j] = "cleanup"
    /\ disk' = Remove(disk, inputPath(j))
    /\ pc' = [pc EXCEPT ![j] = "done"]
    /\ UNCHANGED << fileName, timeStamp, slug, err, notified, sent,
                    files, mu, inserts, now, reqVars >>

(***************************************************************************)
(* The handler of startHTTPServer (lines 161-182).                         *)
(***************************************************************************)
\* line 162
requestSlug(r) == TrimPrefix(urlPath[r], << "/" >>)

\* the HTTP server accepts a request and starts the handler for it
Accept(r) ==
    /\ rpc[r] = "idle"
    /\ \A k \in Requests : k < r => rpc[k] # "idle"
    /\ Tasks < NumTasks
    /\ \E path \in UrlPaths : urlPath' = [urlPath EXCEPT ![r] = path]
    /\ rpc' = [rpc EXCEPT ![r] = "start"]
    /\ UNCHANGED << jobVars, files, mu, inserts, disk, now, filePath, exists, response >>

\* lines 162-166: the empty slug
EmptyPath(r) ==
    /\ rpc[r] = "start"
    /\ requestSlug(r) = << >>
    /\ response' = [response EXCEPT ![r] = NotFoundResponse]
    /\ rpc' = [rpc EXCEPT ![r] = "done"]
    /\ UNCHANGED << jobVars, files, mu, inserts, disk, now, urlPath, filePath, exists >>

\* lines 162-168: storage.mu.RLock()
RLock(r) ==
    /\ rpc[r] = "start"
    /\ requestSlug(r) # << >>
    /\ ~ mu.writer
    /\ mu' = [mu EXCEPT !.readers = @ + 1]
    /\ rpc' = [rpc EXCEPT ![r] = "lookup"]
    /\ UNCHANGED << jobVars, files, inserts, disk, now, urlPath, filePath, exists, response >>

\* line 169: filePath, exists := storage.files[slug]
Lookup(r) ==
    /\ rpc[r] = "lookup"
    /\ exists' = [exists EXCEPT ![r] = requestSlug(r) \in DOMAIN files]
    /\ filePath' = [filePath EXCEPT ![r] =
                       IF requestSlug(r) \in DOMAIN files THEN files[requestSlug(r)] ELSE NoPath]
    /\ rpc' = [rpc EXCEPT ![r] = "runlock"]
    /\ UNCHANGED << jobVars, files, mu, inserts, disk, now, urlPath, response >>

\* line 170: storage.mu.RUnlock()
RUnlock(r) ==
    /\ rpc[r] = "runlock"
    /\ mu' = [mu EXCEPT !.readers = @ - 1]
    /\ rpc' = [rpc EXCEPT ![r] = "respond"]
    /\ UNCHANGED << jobVars, files, inserts, disk, now, urlPath, filePath, exists, response >>

\* lines 172-175: the slug is not in the map
NotFound(r) ==
    /\ rpc[r] = "respond"
    /\ ~ exists[r]
    /\ response' = [response EXCEPT ![r] = NotFoundResponse]
    /\ rpc' = [rpc EXCEPT ![r] = "done"]
    /\ UNCHANGED << jobVars, files, mu, inserts, disk, now, urlPath, filePath, exists >>

\* http.ServeFile: the bytes of the file under the headers already set, or
\* its own 404 when the file cannot be opened
ServeFile(path, disposition, contentType) ==
    IF path \in DOMAIN disk
    THEN Response(200, contentType, disposition, disk[path])
    ELSE Response(404, "text/plain; charset=utf-8", disposition,
                  PlainText("404 page not found"))

\* lines 177-181: the headers, and http.ServeFile
Serve(r) ==
    /\ rpc[r] = "respond"
    /\ exists[r]
    /\ LET fileNameOf == Base(filePath[r])
       IN  response' = [response EXCEPT ![r] =
               ServeFile(filePath[r],
                         << "attachment; filename=" >> \o fileNameOf,
                         "application/x-mobipocket-ebook")]
    /\ rpc' = [rpc EXCEPT ![r] = "done"]
    /\ UNCHANGED << jobVars, files, mu, inserts, disk, now, urlPath, filePath, exists >>

(***************************************************************************)
(* The system.                                                             *)
(***************************************************************************)
Job(j) ==
    \/ Receive(j)
    \/ Validate(j)
    \/ GetFileFail(j)
    \/ GetFileOk(j)
    \/ DownloadOk(j)
    \/ DownloadFail(j)
    \/ CleanupDownload(j)
    \/ ConvertOk(j)
    \/ ConvertFail(j)
    \/ GenerateSlugOk(j)
    \/ GenerateSlugFail(j)
    \/ CleanupInput(j)
    \/ CleanupOutput(j)
    \/ Lock(j)
    \/ Insert(j)
    \/ Unlock(j)
    \/ Notify(j)
    \/ UploadOk(j)
    \/ UploadFail(j)
    \/ Cleanup(j)

Request(r) ==
    \/ Accept(r)
    \/ EmptyPath(r)
    \/ RLock(r)
    \/ Lookup(r)
    \/ RUnlock(r)
    \/ NotFound(r)
    \/ Serve(r)

Next ==
    \/ \E j \in Jobs : Job(j)
    \/ \E r \in Requests : Request(r)

Spec == Init /\ [][Next]_vars

(***************************************************************************)
(* The system under fair scheduling, in an environment that keeps the      *)
(* data apart from the control: the documents are b.fb2 and b.pdf, they    *)
(* arrive within one second, the random bytes are zero, and the requests   *)
(* are for the root and for the slug of those bytes.                       *)
(***************************************************************************)
Env ==
    /\ \A j \in Jobs :
          /\ fileName[j] \in { NoName, << "b", ".", "f", "b", "2" >>, << "b", ".", "p", "d", "f" >> }
          /\ slug[j] \in { NoSlug, generateSlug(<< 0, 0, 0 >>) }
    /\ now = Epoch
    /\ \A r \in Requests : urlPath[r] \in { NoPath, << "/" >>, << "/", "A", "A", "A" >> }

FairNext == Next /\ Env'

\* a step of a goroutine that has been started
TaskStep ==
    \/ \E j \in Jobs : pc[j] # "idle" /\ pc'[j] # pc[j]
    \/ \E r \in Requests : rpc[r] # "idle" /\ rpc'[r] # rpc[r]

\* the Go scheduler runs a goroutine that can run, every call to an
\* external tool or to the chat platform returns, and a sync.RWMutex that is
\* free is given to a goroutine that waits for it; whether further documents
\* and requests arrive is left open
FairSpec == Init /\ [][FairNext]_vars /\ WF_vars(FairNext /\ TaskStep)

(***************************************************************************)
(* Properties.                                                             *)
(***************************************************************************)
Terminal == { "rejected", "failed", "done" }

\* the job has assigned its slug at line 140
HasInserted(j) == \E i \in DOMAIN inserts : inserts[i].job = j

\* download, conversion, slug generation, notification and upload have all
\* succeeded and the job has returned
FullSuccess(j) == pc[j] = "done" /\ err[j] = "nil" /\ notified[j] = "ok"

\* the registry as a lookup sees it
Found(s) == s \in DOMAIN files

\* C1: when a job that succeeded in every step becomes done, its input path
\* is absent, its output path exists and the registry maps its slug to its
\* output path, whatever the other jobs and requests do.
C1_FullSuccess ==
    [][ \A j \in Jobs :
          (pc[j] # "done" /\ FullSuccess(j)') =>
              /\ inputPath(j) \notin DOMAIN disk'
              /\ outputPath(j) \in DOMAIN disk'
              /\ slug[j] \in DOMAIN files'
              /\ files'[slug[j]] = outputPath(j)
      ]_vars

\* C2: a job whose conversion failed never inserts into the registry, and
\* when it terminates its input path and its output path are absent.
C2_ConvertFailure ==
    [][ \A j \in Jobs :
          err'[j] = "convertFile" =>
              /\ ~ HasInserted(j)'
              /\ (pc[j] \notin Terminal /\ pc'[j] \in Terminal) =>
                    /\ inputPath(j) \notin DOMAIN disk'
                    /\ outputPath(j) \notin DOMAIN disk'
      ]_vars

\* the accepted extensions as the specification states them: the name ends,
\* in any letter case, in .fb2 or .txt
EndsInAcceptedExtension(name) ==
    \/ HasSuffix(ToLower(name), << ".", "f", "b", "2" >>)
    \/ HasSuffix(ToLower(name), << ".", "t", "x", "t" >>)

\* C3: the step a job takes on its document either rejects it (the name
\* does not end in an accepted extension: the job sends the rejection
\* message and nothing else, touches neither the disk nor the registry, and
\* stops there, not in Failed), or takes it to the download stage, which
\* begins with the file lookup (the name ends in an accepted extension in
\* any letter case). A rejected job never does anything more.
C3_Validation ==
    [][ \A j \in Jobs :
          /\ (pc[j] = "validate" /\ pc'[j] # "validate") =>
                IF EndsInAcceptedExtension(fileName[j])
                THEN pc'[j] = "getFile"
                ELSE /\ pc'[j] = "rejected"
                     /\ sent'[j] = << Rejection >>
                     /\ disk' = disk
                     /\ files' = files
                     /\ inserts' = inserts
          /\ pc[j] = "rejected" =>
                /\ pc'[j] = "rejected"
                /\ ~ EndsInAcceptedExtension(fileName[j])
                /\ sent'[j] = << Rejection >>
                /\ timeStamp'[j] = NoTime
                /\ slug'[j] = NoSlug
                /\ ~ HasInserted(j)'
      ]_vars

C3_Witness ==
    \E j, k \in Jobs :
        /\ pc[j] = "rejected" /\ fileName[j] = << "f", "b", "2" >>
        /\ pc[k] = "download" /\ fileName[k] = << "b", ".", "T", "X", "T" >>

\* the statements of handleDocument that follow the conversion
AfterConversion ==
    { "generateSlug", "lock", "insert", "unlock", "notify", "upload", "cleanup", "done" }

\* C4: a job gets past the conversion only by the step in which the
\* conversion reports success, which leaves the converted artifact on disk;
\* the registry changes only by the insertion of a job that is past the
\* conversion and has met no error; and a job that failed validation, the
\* file lookup, the download or the conversion has never inserted.
C4_InsertAfterConversion ==
    [][ /\ \A j \in Jobs :
              /\ (pc[j] \notin AfterConversion /\ pc'[j] \in AfterConversion) =>
                    /\ pc[j] = "convert"
                    /\ err'[j] = "nil"
                    /\ outputPath(j) \in DOMAIN disk'
                    /\ disk'[outputPath(j)].kind = "mobi"
              /\ (pc'[j] = "rejected"
                    \/ err'[j] \in { "GetFile", "downloadFile", "convertFile" }) =>
                    ~ HasInserted(j)'
        /\ (files' # files \/ inserts' # inserts) =>
              \E j \in Jobs :
                  /\ pc[j] = "insert"
                  /\ err[j] = "nil"
                  /\ files' = Put(files, slug[j], outputPath(j))
                  /\ inserts' = Append(inserts,
                        [job |-> j, slug |-> slug[j], path |-> outputPath(j)])
      ]_vars

C4_Witness ==
    \E j, k \in Jobs :
        /\ HasInserted(j) /\ Found(slug[j]) /\ outputPath(j) \in DOMAIN disk
        /\ err[k] = "convertFile" /\ pc[k] = "failed"

\* C5: when a job becomes done or failed, there is no file at its input
\* path.
C5_InputRemoved ==
    [][ \A j \in Jobs :
          (pc[j] \notin { "done", "failed" } /\ pc'[j] \in { "done", "failed" }) =>
              inputPath(j) \notin DOMAIN disk'
      ]_vars

\* what a job has sent
SentKinds(j) == { sent[j][i].kind : i \in DOMAIN sent[j] }

\* C6: a job that has terminated has produced exactly one of the rejection
\* message, the generic failure message and the success message, the last
\* one together with the document.
C6_ExactlyOneOutcome ==
    \A j \in Jobs :
        pc[j] \in Terminal =>
            /\ Cardinality({ "rejection", "error", "url" } \cap SentKinds(j)) = 1
            /\ "url" \in SentKinds(j) => "document" \in SentKinds(j)

\* C6, amended: a job that has terminated has sent the rejection message
\* alone (the document was rejected); or the notice that the conversion
\* starts and then the generic failure message alone (it failed before the
\* registry insertion); or the notice, the success message and the
\* document (it succeeded); or the notice, the success message, the
\* document unless it could not be read, and the generic failure message
\* (the upload failed).
C6_Outcomes ==
    \A j \in Jobs :
        pc[j] \in Terminal =>
            CASE pc[j] = "rejected" -> sent[j] = << Rejection >>
              [] pc[j] = "failed" -> sent[j] = << Started, ErrorMsg >>
              [] pc[j] = "done" /\ err[j] = "nil" ->
                    sent[j] = << Started, UrlMsg(slug[j]), DocMsg(outputPath(j)) >>
              [] OTHER ->
                    /\ err[j] = "sendConvertedFile"
                    /\ sent[j] \in
                          { << Started, UrlMsg(slug[j]), DocMsg(outputPath(j)), ErrorMsg >>,
                            << Started, UrlMsg(slug[j]), ErrorMsg >> }

C6_Witness ==
    \E j, k \in Jobs :
        /\ pc[j] = "done"
        /\ sent[j] = << Started, UrlMsg(slug[j]), DocMsg(outputPath(j)), ErrorMsg >>
        /\ pc[k] = "failed"
        /\ sent[k] = << Started, ErrorMsg >>

\* the name of the file registered under a path of the upload directory
RegisteredName(path) == TrimPrefix(path, << "u", "p", "l", "o", "a", "d", "s", "/" >>)

\* C7: the response to a request whose slug was found in the registry is
\* 200 with the bytes of the registered file, a Content-Disposition
\* attachment header naming it and Content-Type
\* application/x-mobipocket-ebook; the response to a request with an empty
\* path, or with a slug that is in the registry neither when looked up nor
\* when the response is written, is 404 with a plain-text body.
C7_Retrieval ==
    [][ \A r \in Requests :
          (rpc[r] # "done" /\ rpc'[r] = "done") =>
              /\ (requestSlug(r) # << >> /\ exists[r]) =>
                    /\ response'[r].status = 200
                    /\ response'[r].body = disk[filePath[r]]
                    /\ response'[r].disposition =
                          << "attachment; filename=" >> \o RegisteredName(filePath[r])
                    /\ response'[r].contentType = "application/x-mobipocket-ebook"
              /\ (requestSlug(r) = << >> \/ (~ exists[r] /\ ~ Found(requestSlug(r)))) =>
                    /\ response'[r].status = 404
                    /\ response'[r].contentType = "text/plain; charset=utf-8"
      ]_vars

\* the path most recently inserted under a slug
Inserted(s) == \E i \in DOMAIN inserts : inserts[i].slug = s
LastInsert(s) ==
    LET at == { i \in DOMAIN inserts : inserts[i].slug = s }
    IN  inserts[CHOOSE i \in at : \A k \in at : k <= i].path

\* the slugs that are requested or generated
Slugs == { TrimPrefix(path, << "/" >>) : path \in UrlPaths } \cup { generateSlug(b) : b \in RandBytes }

\* C8: after any sequence of inserts and lookups, the registry holds for
\* each slug the path of the most recent insert under it and nothing for a
\* slug never inserted, and that is what the lookup of a request returns.
C8_LookupLastInsert ==
    [][ /\ \A s \in Slugs :
              /\ (s \in DOMAIN files') <=> Inserted(s)'
              /\ Inserted(s)' => files'[s] = LastInsert(s)'
        /\ \A r \in Requests :
              (rpc[r] = "lookup" /\ rpc'[r] # "lookup") =>
                  /\ exists'[r] <=> Inserted(requestSlug(r))
                  /\ exists'[r] => filePath'[r] = LastInsert(requestSlug(r))
      ]_vars

C8_Witness ==
    \E r \in Requests : \E i, k \in DOMAIN inserts :
        /\ rpc[r] = "done"
        /\ i < k
        /\ inserts[i].slug = requestSlug(r)
        /\ inserts[k].slug = requestSlug(r)
        /\ inserts[i].path # inserts[k].path
        /\ filePath[r] = inserts[k].path
        /\ response[r].status = 200

\* C9: whenever the jobs that have inserted have pairwise distinct slugs and
\* no insert is under way, the lookup of each of their slugs succeeds and
\* returns the path that job inserted.
C9_NoLostWrites ==
    LET inserters == { j \in Jobs : HasInserted(j) }
    IN  (/\ \A j \in Jobs : pc[j] # "insert"
         /\ \A j, k \in inserters : j # k => slug[j] # slug[k])
        => \A j \in inserters : /\ Found(slug[j])
                                /\ files[slug[j]] = outputPath(j)

C9_Witness ==
    /\ \A j \in Jobs : HasInserted(j) /\ pc[j] \notin { "insert", "unlock" }
    /\ \A j, k \in Jobs : j # k => slug[j] # slug[k]

\* the tasks that hold the lock for writing, and for reading
Writers == { j \in Jobs : pc[j] \in { "insert", "unlock" } }
Readers == { r \in Requests : rpc[r] \in { "lookup", "runlock" } }

\* C10: at most one task is writing the registry, and none is reading it
\* while another writes.
C10_ReadersWriter ==
    /\ Cardinality(Writers) <= 1
    /\ Writers # {} => Readers = {}

\* several readers read at the same time, while a writer waits
C10_Witness ==
    /\ Cardinality({ r \in Requests : rpc[r] = "lookup" }) >= 2
    /\ \E j \in Jobs : pc[j] = "lock"

\* C11: every path stored in the registry is the path of a file on disk,
\* whatever the jobs have done; in particular no cleanup has removed a file
\* the registry points to.
C11_RegisteredOnDisk ==
    \A s \in DOMAIN files : files[s] \in DOMAIN disk

\* the jobs that have read the clock and so have their paths
Named == { j \in Jobs : timeStamp[j] # NoTime }

\* C12: two jobs whose time stamps or original file names differ share no
\* path: the input path and the output path of the one both differ from the
\* input path and from the output path of the other.
C12_DistinctPaths ==
    \A j, k \in Named :
        (j # k /\ << timeStamp[j], fileName[j] >> # << timeStamp[k], fileName[k] >>) =>
            { inputPath(j), outputPath(j) } \cap { inputPath(k), outputPath(k) } = {}

\* C13: when two jobs have inserted under the same slug, the registry maps
\* the slug to the output path of the one that inserted last, and the output
\* artifact of the earlier one is still on disk, with no slug resolving to it.
C13_LastWriterWins ==
    \A i, k \in DOMAIN inserts :
        (/\ i < k
         /\ inserts[i].slug = inserts[k].slug
         /\ \A m \in DOMAIN inserts : inserts[m].slug = inserts[k].slug => m <= k)
        => /\ Found(inserts[k].slug)
           /\ files[inserts[k].slug] = inserts[k].path
           /\ inserts[i].path \in DOMAIN disk
           /\ \A s \in DOMAIN files : files[s] # inserts[i].path

\* C14: the step in which a job's upload fails sends the user the generic
\* failure message, changes neither the disk nor the registry and takes the
\* job to its cleanup; that cleanup ends the job as done and removes the
\* job's input path and nothing else, so that the output artifact and the
\* registry entry under the job's slug are kept.
C14_UploadFailure ==
    [][ \A j \in Jobs :
          /\ (pc[j] = "upload" /\ err'[j] = "sendConvertedFile") =>
                /\ sent'[j] \in { Append(sent[j], ErrorMsg),
                                  Append(Append(sent[j], DocMsg(outputPath(j))), ErrorMsg) }
                /\ pc'[j] = "cleanup"
                /\ disk' = disk
                /\ files' = files
          /\ (err[j] = "sendConvertedFile" /\ pc'[j] # pc[j]) =>
                /\ pc[j] = "cleanup"
                /\ pc'[j] = "done"
                /\ disk' = Remove(disk, inputPath(j))
                /\ inputPath(j) \notin DOMAIN disk'
                /\ files' = files
                /\ slug[j] \in DOMAIN files'
      ]_vars

\* a job whose upload failed for the chat platform's sake has ended: its
\* input is gone, its output and its registry entry are there
C14_Witness ==
    \E j \in Jobs :
        /\ pc[j] = "done"
        /\ err[j] = "sendConvertedFile"
        /\ sent[j] = << Started, UrlMsg(slug[j]), DocMsg(outputPath(j)), ErrorMsg >>
        /\ inputPath(j) \notin DOMAIN disk
        /\ outputPath(j) \in DOMAIN disk
        /\ Found(slug[j]) /\ files[slug[j]] = outputPath(j)

\* C15: the step in which a job's download fails touches no path but the
\* job's input path and does not change the registry; the job's next and
\* last step removes the input path and nothing else (the output path is
\* left as it is) and ends the job as failed; the job never inserts into
\* the registry and never gets to the conversion.
C15_DownloadFailure ==
    [][ \A j \in Jobs :
          /\ (pc[j] = "download" /\ err'[j] = "downloadFile") =>
                /\ pc'[j] = "cleanupDownload"
                /\ \A p \in (DOMAIN disk \cup DOMAIN disk') \ { inputPath(j) } :
                      p \in DOMAIN disk /\ p \in DOMAIN disk' /\ disk'[p] = disk[p]
                /\ files' = files
          /\ (err[j] = "downloadFile" /\ pc'[j] # pc[j]) =>
                /\ pc[j] = "cleanupDownload"
                /\ pc'[j] = "failed"
                /\ disk' = Remove(disk, inputPath(j))
                /\ inputPath(j) \notin DOMAIN disk'
                /\ files' = files
          /\ err'[j] = "downloadFile" =>
                /\ ~ HasInserted(j)'
                /\ pc'[j] \in { "cleanupDownload", "failed" }
                /\ slug'[j] = NoSlug
      ]_vars

\* a job whose download failed has ended, and the converted artifact of
\* another job, at the very path that is its output path, is still there
C15_Witness ==
    \E j, k \in Jobs :
        /\ pc[j] = "failed" /\ err[j] = "downloadFile"
        /\ k # j /\ outputPath(k) = outputPath(j)
        /\ outputPath(j) \in DOMAIN disk
        /\ HasInserted(k) /\ ~ HasInserted(j)

\* C16: the step in which the sending of the retrieval URL fails reports the
\* failure, as a failed upload does (the job takes the error up and sends
\* the user the generic failure message), and takes the job on to the upload.
C16_NotifyFailureReported ==
    [][ \A j \in Jobs :
          (pc[j] = "notify" /\ notified'[j] = "error") =>
              /\ \/ err'[j] # "nil"
                 \/ sent'[j][Len(sent'[j])] = ErrorMsg
              /\ pc'[j] = "upload"
      ]_vars

\* C17: the step in which a job's slug generation fails sends the user the
\* generic failure message and takes the job to its cleanup, without another
\* attempt and with no slug; the cleanup removes the job's input path and
\* then its output path, and nothing else, and ends the job as failed; the
\* job never inserts into the registry.
C17_SlugFailure ==
    [][ \A j \in Jobs :
          /\ (pc[j] = "generateSlug" /\ err'[j] = "generateSlug") =>
                /\ sent'[j] = Append(sent[j], ErrorMsg)
                /\ pc'[j] = "cleanupInput"
                /\ disk' = disk
                /\ files' = files
          /\ (err[j] = "generateSlug" /\ pc'[j] # pc[j]) =>
                \/ /\ pc[j] = "cleanupInput"
                   /\ pc'[j] = "cleanupOutput"
                   /\ disk' = Remove(disk, inputPath(j))
                   /\ files' = files
                \/ /\ pc[j] = "cleanupOutput"
                   /\ pc'[j] = "failed"
                   /\ disk' = Remove(disk, outputPath(j))
                   /\ outputPath(j) \notin DOMAIN disk'
                   /\ files' = files
          /\ err'[j] = "generateSlug" =>
                /\ slug'[j] = NoSlug
                /\ ~ HasInserted(j)'
                /\ sent'[j] = << Started, ErrorMsg >>
      ]_vars

\* a job whose slug generation failed has ended with its two files removed
C17_Witness ==
    \E j \in Jobs :
        /\ pc[j] = "failed" /\ err[j] = "generateSlug"
        /\ inputPath(j) \notin DOMAIN disk
        /\ outputPath(j) \notin DOMAIN disk
        /\ \A k \in Jobs \ {j} : pc[k] = "idle"

\* the jobs that have handed a retrieval URL to the chat platform
Notified == { j \in Jobs : \E i \in DOMAIN sent[j] : sent[j][i] = UrlMsg(slug[j]) }

\* C18: a job sends its retrieval URL only after it has inserted its slug
\* and released the lock; when the URL is sent and in every state after
\* that, the slug of the URL is in the registry, and a request that looks it
\* up finds it.
C18_InsertBeforeNotify ==
    [][ /\ \A j \in Jobs :
              /\ sent'[j] # sent[j] /\ j \in Notified' /\ j \notin Notified =>
                    /\ HasInserted(j)
                    /\ pc[j] \notin { "lock", "insert", "unlock" }
                    /\ Found(slug[j])
              /\ j \in Notified => j \in Notified' /\ Found(slug[j])'
        /\ \A r \in Requests :
              (rpc[r] = "lookup" /\ rpc'[r] # "lookup"
                 /\ \E j \in Notified : slug[j] = requestSlug(r)) => exists'[r]
      ]_vars

\* a request for the slug of a URL that has been sent was answered from the
\* registry, with the file of the job that sent it
C18_Witness ==
    \E j \in Notified : \E r \in Requests :
        /\ requestSlug(r) = slug[j]
        /\ rpc[r] = "done"
        /\ exists[r]
        /\ filePath[r] = outputPath(j)
        /\ response[r].status = 200

\* C19: no step removes a slug from the registry, and a step changes the
\* registry only if it is the assignment of a job in its registering step,
\* which puts the job's output path under the job's slug; the steps of the
\* requests, and the other steps of the jobs, the cleanups among them, leave
\* the registry as it is.
C19_RegistryFrame ==
    [][ /\ DOMAIN files \subseteq DOMAIN files'
        /\ files' # files =>
              \E j \in Jobs :
                  /\ pc[j] = "insert" /\ pc'[j] = "unlock"
                  /\ files' = Put(files, slug[j], outputPath(j))
        /\ (\E r \in Requests : rpc'[r] # rpc[r]) => files' = files
        /\ (\E j \in Jobs : pc'[j] # pc[j] /\ pc[j] # "insert") => files' = files
      ]_vars

\* a job has failed after its conversion and removed the file an entry of the
\* registry points to, a request has looked that entry up, and the registry
\* still holds it
C19_Witness ==
    \E j, k \in Jobs : \E r \in Requests :
        /\ pc[j] = "failed" /\ err[j] \in { "convertFile", "generateSlug" }
        /\ HasInserted(k) /\ outputPath(k) = outputPath(j)
        /\ rpc[r] = "done" /\ requestSlug(r) = slug[k] /\ exists[r]
        /\ Found(slug[k]) /\ files[slug[k]] = outputPath(k)

\* every goroutine that has been started has ended, and the lock is free
Quiet ==
    /\ \A j \in Jobs : pc[j] \in Terminal \cup { "idle" }
    /\ \A r \in Requests : rpc[r] \in { "idle", "done" }
    /\ mu = [writer |-> FALSE, readers |-> 0]

\* C20: under fair scheduling there comes a state from which on every job
\* that has been started is in a terminal state, every request that has
\* been accepted is answered and the lock is held by nobody: no job and no
\* request runs or waits for ever.
C20_Termination == <>[]Quiet

\* the jobs have ended, one of them as done, a request has read the
\* registry and been answered, and the lock is free
C20_Witness ==
    /\ \E j \in Jobs : pc[j] = "done"
    /\ \A j \in Jobs : pc[j] \in Terminal
    /\ \E r \in Requests : rpc[r] = "done" /\ exists[r]
    /\ mu = [writer |-> FALSE, readers |-> 0]

====
